---------------------------- MODULE Spec2Model ----------------------------
(***************************************************************************)
(* Model of src/app.py: the Dash application that shows precomputed MDS    *)
(* coordinates as clickable scatter plots and plays the audio attached to  *)
(* the clicked point.                                                      *)
(*                                                                         *)
(* Python strings are sequences of one-character strings, so that          *)
(* str.lower, str.capitalize, f-string concatenation and the ordering      *)
(* used by sorted() are computed character by character.                   *)
(***************************************************************************)
EXTENDS Integers, Sequences, FiniteSets, TLC

(***************************************************************************)
(* Bounds of the model.                                                    *)
(***************************************************************************)
\* speakers S1..S<MaxSpeakers> available to the tables drawn for build_figure
MaxSpeakers == 11
\* speakers per coordinate table of the running application
SessionSpeakers == 2

(***************************************************************************)
(* Python str primitives used by the program.                              *)
(***************************************************************************)
Digits == <<"0", "1", "2", "3", "4", "5", "6", "7", "8", "9">>
UpperCase ==
    <<"A", "B", "C", "D", "E", "F", "G", "H", "I", "J", "K", "L", "M",
      "N", "O", "P", "Q", "R", "S", "T", "U", "V", "W", "X", "Y", "Z">>
LowerCase ==
    <<"a", "b", "c", "d", "e", "f", "g", "h", "i", "j", "k", "l", "m",
      "n", "o", "p", "q", "r", "s", "t", "u", "v", "w", "x", "y", "z">>

IsIn(c, tbl) == \E i \in 1..Len(tbl) : tbl[i] = c
IndexIn(c, tbl) == CHOOSE i \in 1..Len(tbl) : tbl[i] = c

\* code point of a character (ASCII), the key of Python's str comparison
Ord(c) ==
    IF IsIn(c, Digits) THEN 47 + IndexIn(c, Digits)
    ELSE IF IsIn(c, UpperCase) THEN 64 + IndexIn(c, UpperCase)
    ELSE IF IsIn(c, LowerCase) THEN 96 + IndexIn(c, LowerCase)
    ELSE IF c = "_" THEN 95
    ELSE IF c = "." THEN 46
    ELSE IF c = "/" THEN 47
    ELSE 32

LowerChar(c) == IF IsIn(c, UpperCase) THEN LowerCase[IndexIn(c, UpperCase)] ELSE c
UpperChar(c) == IF IsIn(c, LowerCase) THEN UpperCase[IndexIn(c, LowerCase)] ELSE c

\* str.lower()
StrLower(s) == [i \in 1..Len(s) |-> LowerChar(s[i])]

\* str.capitalize(): first character upper-cased, the rest lower-cased
StrCapitalize(s) ==
    [i \in 1..Len(s) |-> IF i = 1 THEN UpperChar(s[i]) ELSE LowerChar(s[i])]

\* a < b for Python strings: lexicographic by code point, a proper prefix first
StrLess(a, b) ==
    \E k \in 1..(Len(a) + 1) :
        /\ k <= Len(b)
        /\ \A j \in 1..(k - 1) : a[j] = b[j]
        /\ \/ k = Len(a) + 1
           \/ Ord(a[k]) < Ord(b[k])

RECURSIVE Unique(_)
\* pandas Series.unique(): the distinct values in order of first appearance
Unique(s) ==
    IF s = <<>> THEN <<>>
    ELSE LET front == Unique(SubSeq(s, 1, Len(s) - 1))
             last == s[Len(s)]
         IN IF \E i \in 1..Len(front) : front[i] = last
            THEN front
            ELSE Append(front, last)

\* x inserted into the ascending list s, after the elements not greater than it
InsertSorted(x, s) ==
    LET k == Cardinality({i \in 1..Len(s) : ~StrLess(x, s[i])})
    IN SubSeq(s, 1, k) \o <<x>> \o SubSeq(s, k + 1, Len(s))

RECURSIVE Sorted(_)
\* sorted() of a list of strings
Sorted(s) ==
    IF s = <<>> THEN <<>>
    ELSE InsertSorted(s[Len(s)], Sorted(SubSeq(s, 1, Len(s) - 1)))

(***************************************************************************)
(* String literals of the program.                                         *)
(***************************************************************************)
s_can == <<"c", "a", "n">>
s_eng == <<"e", "n", "g">>
s_mixed == <<"m", "i", "x", "e", "d">>
s_Can == <<"C", "a", "n">>
s_Eng == <<"E", "n", "g">>
s_Mixed == <<"M", "i", "x", "e", "d">>
s_us == <<"_">>
s_utt1 == <<"_", "u", "t", "t", "1", ".", "w", "a", "v">>
s_utt2 == <<"_", "u", "t", "t", "2", ".", "w", "a", "v">>
s_assets == <<"/", "a", "s", "s", "e", "t", "s", "/">>

stimuli_types == <<"all", "can", "eng", "mixed">>
listener_groups == <<"all", "can", "eng">>
dims == <<"2d", "3d">>

Range(s) == {s[i] : i \in 1..Len(s)}

(***************************************************************************)
(* AUXILIARIES                                                             *)
(***************************************************************************)
\* audio_for with the language capitalized as in the label column
audio_for_Capitalized(row, stim) ==
    IF stim = "mixed"
    THEN << row.speaker \o s_us \o s_Can \o s_utt1,
            row.speaker \o s_us \o s_Can \o s_utt2,
            row.speaker \o s_us \o s_Eng \o s_utt1,
            row.speaker \o s_us \o s_Eng \o s_utt2 >>
    ELSE << row.speaker \o s_us \o StrCapitalize(row.language) \o s_utt1,
            row.speaker \o s_us \o StrCapitalize(row.language) \o s_utt2 >>

\* audio_for(row, stim): the candidate audio filenames of a row
audio_for(row, stim) ==
    IF stim = "mixed"
    THEN << row.speaker \o s_us \o s_Can \o s_utt1,
            row.speaker \o s_us \o s_Can \o s_utt2,
            row.speaker \o s_us \o s_Eng \o s_utt1,
            row.speaker \o s_us \o s_Eng \o s_utt2 >>
    ELSE << row.speaker \o s_us \o row.language \o s_utt1,
            row.speaker \o s_us \o row.language \o s_utt2 >>

palette ==
    << "#1f77b4", "#ff7f0e", "#2ca02c", "#d62728", "#9467bd",
       "#8c564b", "#e377c2", "#7f7f7f", "#bcbd22", "#17becf" >>

\* color_map without the sort: rank by order of first appearance
color_map_Unsorted(speakers) ==
    LET uniq == Unique(speakers)
    IN [spk \in Range(uniq) |->
            palette[((IndexIn(spk, uniq) - 1) % Len(palette)) + 1]]

\* color_map(speakers): speaker -> palette entry by rank in sorted unique order
color_map(speakers) ==
    LET uniq == Sorted(Unique(speakers))
    IN [spk \in Range(uniq) |->
            palette[((IndexIn(spk, uniq) - 1) % Len(palette)) + 1]]

sym_map == (s_can :> "circle") @@ (s_eng :> "square") @@ (s_mixed :> "diamond")
name_map == (s_can :> "Cantonese") @@ (s_eng :> "English") @@ (s_mixed :> "Mixed")

(***************************************************************************)
(* FIGURE BUILDER                                                          *)
(***************************************************************************)
Column(df, col) == [i \in 1..Len(df) |-> df[i][col]]

\* the frame build_figure works on: the copy with the label column added
LabelledFrame(df, stim) ==
    [i \in 1..Len(df) |->
        [label |-> df[i].speaker \o s_us \o
                   (IF stim # "mixed" THEN StrCapitalize(df[i].language)
                    ELSE s_Mixed)] @@ df[i]]

\* marker size (line 53)
MarkerSize(dim, stim) ==
    IF dim = "2d" \/ (dim = "3d" /\ stim = "mixed") THEN 12 ELSE 6

\* the categories a figure is split into (line 56)
Langs(stim) == IF stim = "mixed" THEN <<s_mixed>> ELSE <<s_can, s_eng>>

\* the rows of one category, compared without str.lower()
SubFrame_NoLower(df, lang) ==
    IF lang = s_mixed THEN df
    ELSE SelectSeq(df, LAMBDA r : r.language = lang)

\* the rows of one category (line 58)
SubFrame(df, lang) ==
    IF lang = s_mixed THEN df
    ELSE SelectSeq(df, LAMBDA r : StrLower(r.language) = lang)

\* one trace of the figure (lines 68-86); hovertext, text position and font,
\* which no callback reads, are left out, as is the constant layout
Trace(sub, cm, dim, stim, lang) ==
    [type |-> IF dim = "2d" THEN "scatter" ELSE "scatter3d",
     x |-> Column(sub, "dim1"),
     y |-> Column(sub, "dim2"),
     z |-> IF dim = "2d" THEN <<>> ELSE Column(sub, "dim3"),
     marker |-> [size |-> MarkerSize(dim, stim),
                 color |-> [i \in 1..Len(sub) |-> cm[sub[i].speaker]],
                 symbol |-> sym_map[lang]],
     text |-> Column(sub, "label"),
     customdata |-> [i \in 1..Len(sub) |-> audio_for(sub[i], stim)],
     name |-> name_map[lang]]

RECURSIVE Traces(_, _, _, _, _)
\* the loop over langs (lines 57-88); an empty category is skipped
Traces(df, cm, dim, stim, langs) ==
    IF langs = <<>> THEN <<>>
    ELSE LET sub == SubFrame(df, Head(langs))
             rest == Traces(df, cm, dim, stim, Tail(langs))
         IN IF sub = <<>> THEN rest
            ELSE <<Trace(sub, cm, dim, stim, Head(langs))>> \o rest

\* build_figure(df, dim, stim): the traces of the returned figure
build_figure(df, dim, stim) ==
    LET ldf == LabelledFrame(df, stim)
        cm == color_map(Column(ldf, "speaker"))
    IN Traces(ldf, cm, dim, stim, Langs(stim))

\* build_figure without the copy of line 48: the label column is added to
\* the frame the caller passed
CallerFrameAfterBuild_NoCopy(df, stim) == LabelledFrame(df, stim)

\* the frame the caller passed, once build_figure has returned: line 48
\* rebinds df to a copy, so the label column never reaches the caller's frame
CallerFrameAfterBuild(df, stim) == df

(***************************************************************************)
(* DATA: the coordinate tables read at import time.  The csv files are not *)
(* part of the repository; CsvFile gives the contents the model loads.     *)
(***************************************************************************)
\* str(i) for 0 <= i <= 99
Decimal(i) ==
    IF i < 10 THEN <<Digits[i + 1]>>
    ELSE <<Digits[(i \div 10) + 1], Digits[(i % 10) + 1]>>

SpeakerName(i) == <<"S">> \o Decimal(i)

\* the languages of the stimuli of one stimulus type
StimLanguages(stim) ==
    IF stim = "all" THEN <<s_can, s_eng>>
    ELSE IF stim = "can" THEN <<s_can>>
    ELSE IF stim = "eng" THEN <<s_eng>>
    ELSE <<s_mixed>>

\* a number that differs from facet to facet
FacetNo(stim, group, dim) ==
    (dim - 2) * 12 + (IndexIn(stim, stimuli_types) - 1) * 3
    + IndexIn(group, listener_groups)

\* coords_{stim}_stimuli_{group}_listeners_{dim}dim.csv
CsvFile(stim, group, dim) ==
    LET ls == StimLanguages(stim)
        n == SessionSpeakers * Len(ls)
        base(i) == [speaker |-> SpeakerName(((i - 1) \div Len(ls)) + 1),
                    language |-> ls[((i - 1) % Len(ls)) + 1],
                    dim1 |-> FacetNo(stim, group, dim) + i,
                    dim2 |-> FacetNo(stim, group, dim) - i]
    IN [i \in 1..n |->
          IF dim = 2 THEN base(i) ELSE [dim3 |-> i] @@ base(i)]

\* load_coords(stim, group, dim)
load_coords(stim, group, dim) == CsvFile(stim, group, dim)

\* int(d[:-1])
DimNumber(d) == IF d = "2d" THEN 2 ELSE 3

\* the module-level dict coords[d][s][g]
LoadedCoords ==
    [d \in Range(dims) |->
        [s \in Range(stimuli_types) |->
            [g \in Range(listener_groups) |-> load_coords(s, g, DimNumber(d))]]]

(***************************************************************************)
(* AUDIO PLAYBACK: the handler as a function of its three arguments and    *)
(* of the files present in ./assets when it runs.                          *)
(*                                                                         *)
(* A clickData value is [kind |-> "None"] or [kind |-> "dict", points |->  *)
(* <<point, ...>>]; a dict without a "points" key behaves like one with an *)
(* empty list.  A point's customdata is [kind |-> "None"] or [kind |->     *)
(* "list", items |-> <<filename, ...>>].                                   *)
(***************************************************************************)
None == [kind |-> "None"]
PyList(items) == [kind |-> "list", items |-> items]
ClickDict(points) == [kind |-> "dict", points |-> points]

IdlePrompt == [kind |-> "text", text |-> "Click a point to hear example audio"]
NotFound == [kind |-> "text", text |-> "Audio files not found"]
Raised(exc) == [kind |-> "raise", exc |-> exc]

\* `c and c.get("points")` (line 194)
Truthy(c) == c.kind = "dict" /\ c.points # <<>>

\* next((c for c in (cd_all, cd_can, cd_eng) if ...), None) (lines 193-194)
FirstClick(cds) ==
    IF \E i \in 1..Len(cds) : Truthy(cds[i])
    THEN cds[CHOOSE i \in 1..Len(cds) :
                /\ Truthy(cds[i])
                /\ \A j \in 1..(i - 1) : ~Truthy(cds[j])]
    ELSE None

\* html.Audio(src=f"/assets/{f}", controls=True, ...)
Audio(f) == [src |-> s_assets \o f, controls |-> TRUE]

\* the list comprehension of lines 199-201: os.path.exists(f"./assets/{f}")
Players(files, fs) ==
    LET kept == SelectSeq(files, LAMBDA f : f \in fs)
    IN [i \in 1..Len(kept) |-> Audio(kept[i])]

\* play_audio(cd_all, cd_can, cd_eng), with fs the files in ./assets
play_audio(cd_all, cd_can, cd_eng, fs) ==
    LET click == FirstClick(<<cd_all, cd_can, cd_eng>>)
    IN IF ~Truthy(click) THEN IdlePrompt
       ELSE LET files == click.points[1].customdata
            IN IF files.kind # "list" THEN Raised("TypeError")
               ELSE LET players == Players(files.items, fs)
                    IN IF players = <<>> THEN NotFound
                       ELSE [kind |-> "players", players |-> players]

(***************************************************************************)
(* DASH APP: the callbacks and what they are wired to.                     *)
(***************************************************************************)
Callbacks == {"make_stim_tabs", "make_listener_tabs", "play_audio"}
GraphIds == <<"g-all", "g-can", "g-eng">>

\* play_audio wired to the first graph only
Inputs_OnlyFirstGraph(cb) ==
    IF cb = "make_stim_tabs" THEN {"dim-tabs"}
    ELSE IF cb = "make_listener_tabs" THEN {"dim-tabs", "stim-tabs"}
    ELSE {GraphIds[1]}

\* make_listener_tabs wired to dim-tabs only
Inputs_NoStimInput(cb) ==
    IF cb = "make_stim_tabs" THEN {"dim-tabs"}
    ELSE IF cb = "make_listener_tabs" THEN {"dim-tabs"}
    ELSE Range(GraphIds)

\* the Input(...) component ids of each @app.callback
Inputs(cb) ==
    IF cb = "make_stim_tabs" THEN {"dim-tabs"}
    ELSE IF cb = "make_listener_tabs" THEN {"dim-tabs", "stim-tabs"}
    ELSE Range(GraphIds)

\* the callbacks an input property change of component id triggers
TriggeredBy(id) == {cb \in Callbacks : id \in Inputs(cb)}

\* play_audio registered with prevent_initial_call=True
FiredOnMount_PreventInitial(ids) ==
    {cb \in Callbacks \ {"play_audio"} : Inputs(cb) \cap ids # {}}

\* the callbacks fired because components with these ids entered the layout
\* (no callback sets prevent_initial_call)
FiredOnMount(ids) == {cb \in Callbacks : Inputs(cb) \cap ids # {}}

\* the dcc.Tabs value make_stim_tabs returns (line 163)
NewStimTabsValue == "all"

\* fig = lambda g: build_figure(coords[dim][stim][g], dim, stim) (line 176)
ListenerFigure(cs, dim, stim, g) == build_figure(cs[dim][stim][g], dim, stim)

\* listener group of a graph id (lines 178-183)
GroupOf(gid) == listener_groups[IndexIn(gid, GraphIds)]

(***************************************************************************)
(* STATE                                                                   *)
(***************************************************************************)
VARIABLES
    coords,       \* the module-level tables coords[d][s][g]
    assets,       \* the filenames present in ./assets
    dimTabs,      \* value of dcc.Tabs "dim-tabs"
    stimTabs,     \* value of dcc.Tabs "stim-tabs"
    mounted,      \* whether "listener-tabs-wrapper" has children
    charts,       \* figure (its traces) of each dcc.Graph of the wrapper
    clickData,    \* clickData property of each dcc.Graph
    audio,        \* children of "audio-output"
    pending,      \* callbacks requested and not yet run
    lastEvent,    \* history: the last tab change or click of the user
    log,          \* history: callbacks run since lastEvent
    fsAtCall,     \* history: ./assets as the last play_audio run saw it
    call,         \* direct call of a function: its arguments
    ret           \* direct call of a function: its result

vars == <<coords, assets, dimTabs, stimTabs, mounted, charts, clickData,
          audio, pending, lastEvent, log, fsAtCall, call, ret>>

uiVars == <<dimTabs, stimTabs, mounted, charts, clickData, audio>>
histVars == <<lastEvent, log, fsAtCall>>
callVars == <<call, ret>>

\* files that may be present in ./assets
AssetUniverse ==
    { SpeakerName(1) \o s_us \o s_can \o s_utt1,
      SpeakerName(1) \o s_us \o s_Eng \o s_utt2 }

NoClicks == [g \in Range(GraphIds) |-> None]
NoCharts == [g \in Range(GraphIds) |-> <<>>]

\* no callback is requested or running
Settled == pending = {}

Event(kind, chart, files) ==
    [kind |-> kind, chart |-> chart, files |-> files,
     stim |-> stimTabs, shown |-> audio.kind]

NoEvent ==
    [kind |-> "load", chart |-> "none", files |-> <<>>, stim |-> "all",
     shown |-> "None"]

\* the layout of lines 118-141 as served: both tab rows, empty wrappers
InitLayout ==
    /\ dimTabs = "2d"
    /\ stimTabs = "all"
    /\ mounted = FALSE
    /\ charts = NoCharts
    /\ clickData = NoClicks
    /\ audio = None

NoCall ==
    /\ call = [fn |-> "none"]
    /\ ret = None

Init ==
    /\ coords = LoadedCoords
    /\ assets \in SUBSET AssetUniverse
    /\ InitLayout
    /\ pending = FiredOnMount({"dim-tabs", "stim-tabs"})
    /\ lastEvent = NoEvent
    /\ log = <<>>
    /\ fsAtCall = {}
    /\ NoCall

(***************************************************************************)
(* User and environment events.  The page takes the user's next tab change *)
(* or click once the callbacks requested by the previous one have          *)
(* returned (Settled); the order in which requested callbacks run is left  *)
(* open, and ./assets may change between any two steps.                    *)
(***************************************************************************)
\* the user selects another dimensionality tab
DimChange(d) ==
    /\ Settled
    /\ d # dimTabs
    /\ dimTabs' = d
    /\ pending' = pending \cup TriggeredBy("dim-tabs")
    /\ lastEvent' = Event("dim", "none", <<>>)
    /\ log' = <<>>
    /\ UNCHANGED <<coords, assets, stimTabs, mounted, charts, clickData,
                   audio, fsAtCall, call, ret>>

\* the user selects another stimulus-type tab
StimChange(s) ==
    /\ Settled
    /\ s # stimTabs
    /\ stimTabs' = s
    /\ pending' = pending \cup TriggeredBy("stim-tabs")
    /\ lastEvent' = Event("stim", "none", <<>>)
    /\ log' = <<>>
    /\ UNCHANGED <<coords, assets, dimTabs, mounted, charts, clickData,
                   audio, fsAtCall, call, ret>>

\* the user shows the listener tab of graph gid (the dcc.Tabs of line 177
\* has no id and is no callback's input) and clicks point i of its trace t
Click(gid, t, i) ==
    /\ Settled
    /\ mounted
    /\ t \in 1..Len(charts[gid])
    /\ i \in 1..Len(charts[gid][t].customdata)
    /\ LET files == charts[gid][t].customdata[i]
           cd == ClickDict(<<[curveNumber |-> t - 1, pointNumber |-> i - 1,
                              customdata |-> PyList(files)]>>)
       IN /\ cd # clickData[gid]
          /\ clickData' = [clickData EXCEPT ![gid] = cd]
          /\ lastEvent' = Event("click", gid, files)
    /\ pending' = pending \cup TriggeredBy(gid)
    /\ log' = <<>>
    /\ UNCHANGED <<coords, assets, dimTabs, stimTabs, mounted, charts,
                   audio, fsAtCall, call, ret>>

\* a file is added to or removed from ./assets
AssetsChange(f) ==
    /\ assets' = IF f \in assets THEN assets \ {f} ELSE assets \cup {f}
    /\ UNCHANGED <<coords, uiVars, pending, histVars, callVars>>

(***************************************************************************)
(* Callback invocations                                                    *)
(***************************************************************************)
\* make_stim_tabs(dim) runs and its Tabs replaces "stim-tabs-wrapper".children
RunMakeStimTabs ==
    /\ "make_stim_tabs" \in pending
    /\ stimTabs' = NewStimTabsValue
    /\ pending' = (pending \ {"make_stim_tabs"}) \cup FiredOnMount({"stim-tabs"})
    /\ log' = Append(log, "make_stim_tabs")
    /\ UNCHANGED <<coords, assets, dimTabs, mounted, charts, clickData,
                   audio, lastEvent, fsAtCall, call, ret>>

\* make_listener_tabs(dim, stim) runs and its Tabs replaces
\* "listener-tabs-wrapper".children with three new graphs
RunMakeListenerTabs ==
    /\ "make_listener_tabs" \in pending
    /\ charts' = [g \in Range(GraphIds) |->
                    ListenerFigure(coords, dimTabs, stimTabs, GroupOf(g))]
    /\ coords' = [coords EXCEPT ![dimTabs][stimTabs] =
                    [g \in Range(listener_groups) |->
                        CallerFrameAfterBuild(coords[dimTabs][stimTabs][g],
                                              stimTabs)]]
    /\ mounted' = TRUE
    /\ clickData' = NoClicks
    /\ pending' = (pending \ {"make_listener_tabs"})
                  \cup FiredOnMount(Range(GraphIds))
    /\ log' = Append(log, "make_listener_tabs")
    /\ UNCHANGED <<assets, dimTabs, stimTabs, audio, lastEvent, fsAtCall,
                   call, ret>>

\* play_audio(cd_all, cd_can, cd_eng) runs; a raised exception leaves
\* "audio-output" as it was
RunPlayAudio ==
    /\ "play_audio" \in pending
    /\ mounted
    /\ LET r == play_audio(clickData["g-all"], clickData["g-can"],
                           clickData["g-eng"], assets)
       IN audio' = IF r.kind = "raise" THEN audio ELSE r
    /\ fsAtCall' = assets
    /\ pending' = pending \ {"play_audio"}
    /\ log' = Append(log, "play_audio")
    /\ UNCHANGED <<coords, assets, dimTabs, stimTabs, mounted, charts,
                   clickData, lastEvent, call, ret>>

Next ==
    \/ \E d \in Range(dims) : DimChange(d)
    \/ \E s \in Range(stimuli_types) : StimChange(s)
    \/ \E g \in Range(GraphIds) :
         \E t \in 1..Len(Langs(stimTabs)) :
           \E i \in 1..SessionSpeakers : Click(g, t, i)
    \/ \E f \in AssetUniverse : AssetsChange(f)
    \/ RunMakeStimTabs
    \/ RunMakeListenerTabs
    \/ RunPlayAudio

Spec == Init /\ [][Next]_vars

(***************************************************************************)
(* Direct calls of build_figure, audio_for and play_audio on arguments     *)
(* drawn from bounded sets.                                                *)
(***************************************************************************)
s_ENG == <<"E", "N", "G">>
s_fr == <<"f", "r">>
s_Xwav == <<"X", ".", "w", "a", "v">>

\* the language column of a drawn table repeats one of these patterns
LangPatterns ==
    << <<s_can>>, <<s_eng, s_can>>, <<s_Can, s_ENG, s_can>>, <<s_mixed>>,
       <<s_can, s_fr>> >>

Orders == {"asc", "desc", "rot"}

\* the speaker numbers lo..hi in the given order
SpeakerOrder(lo, hi, order) ==
    LET n == hi - lo + 1
    IN [k \in 1..n |->
          IF order = "asc" THEN lo + k - 1
          ELSE IF order = "desc" THEN hi - k + 1
          ELSE lo + (k % n)]

\* a table of speakers S<lo>..S<hi>, each once (or twice when dup); dim1 is
\* the row number, so it identifies the row
DrawnFrame(lo, hi, order, pat, dup) ==
    LET once == SpeakerOrder(lo, hi, order)
        sp == IF dup THEN once \o once ELSE once
        ls == LangPatterns[pat]
    IN [k \in 1..Len(sp) |->
          [speaker |-> SpeakerName(sp[k]),
           language |-> ls[((k - 1) % Len(ls)) + 1],
           dim1 |-> k, dim2 |-> 0 - k, dim3 |-> k + 1]]

DrawnFrames ==
    { DrawnFrame(lo, hi, order, pat, dup) :
        lo \in 1..MaxSpeakers, hi \in 0..MaxSpeakers, order \in Orders,
        pat \in 1..Len(LangPatterns), dup \in BOOLEAN }

BuildFigureCalls ==
    { [fn |-> "build_figure", df |-> df, dim |-> d, stim |-> s] :
        df \in DrawnFrames, d \in Range(dims), s \in Range(stimuli_types) }

DrawnLanguages == {s_can, s_Can, s_eng, s_ENG, s_mixed, s_fr}

AudioForCalls ==
    { [fn |-> "audio_for",
       row |-> [speaker |-> SpeakerName(n), language |-> l],
       stim |-> s] :
        n \in 1..MaxSpeakers, l \in DrawnLanguages, s \in Range(stimuli_types) }

\* filenames of drawn click payloads, some of which may be in ./assets
DrawnFiles == AssetUniverse \cup {s_Xwav}

\* the lists of at most two distinct drawn filenames
DrawnLists ==
    {<<>>} \cup { <<f>> : f \in DrawnFiles }
    \cup { p \in DrawnFiles \X DrawnFiles : p[1] # p[2] }

\* what a clickData argument may be: no click, a dict without points, a point
\* whose customdata is None, a point carrying a list
DrawnClicks ==
    {None, ClickDict(<<>>), ClickDict(<<[customdata |-> None]>>)}
    \cup { ClickDict(<<[customdata |-> PyList(l)]>>) : l \in DrawnLists }

PlayAudioCalls ==
    { [fn |-> "play_audio", cd_all |-> a, cd_can |-> c, cd_eng |-> e] :
        a \in DrawnClicks, c \in DrawnClicks, e \in DrawnClicks }

InitCalls ==
    /\ coords = LoadedCoords
    /\ InitLayout
    /\ pending = {}
    /\ lastEvent = NoEvent
    /\ log = <<>>
    /\ fsAtCall = {}
    /\ ret = None
    /\ \/ call \in BuildFigureCalls /\ assets = {}
       \/ call \in AudioForCalls /\ assets = {}
       \/ call \in PlayAudioCalls /\ assets \in SUBSET DrawnFiles

CallBuildFigure ==
    /\ call.fn = "build_figure"
    /\ ret = None
    /\ ret' = [kind |-> "figure",
               traces |-> build_figure(call.df, call.dim, call.stim),
               frame |-> CallerFrameAfterBuild(call.df, call.stim)]
    /\ UNCHANGED <<coords, assets, uiVars, pending, histVars, call>>

CallAudioFor ==
    /\ call.fn = "audio_for"
    /\ ret = None
    /\ ret' = PyList(audio_for(call.row, call.stim))
    /\ UNCHANGED <<coords, assets, uiVars, pending, histVars, call>>

CallPlayAudio ==
    /\ call.fn = "play_audio"
    /\ ret = None
    /\ ret' = play_audio(call.cd_all, call.cd_can, call.cd_eng, assets)
    /\ UNCHANGED <<coords, assets, uiVars, pending, histVars, call>>

NextCalls == CallBuildFigure \/ CallAudioFor \/ CallPlayAudio

SpecCalls == InitCalls /\ [][NextCalls]_vars

(***************************************************************************)
(* PROPERTIES                                                              *)
(***************************************************************************)
\* what the audio region shows for the list files when fs is in ./assets:
\* one player per file that exists, in order, or the not-found message
Rendering(files, fs) ==
    LET kept == SelectSeq(files, LAMBDA f : f \in fs)
    IN IF kept = <<>> THEN NotFound
       ELSE [kind |-> "players",
             players |-> [i \in 1..Len(kept) |->
                            [src |-> s_assets \o kept[i], controls |-> TRUE]]]

\* the figures of the facets (dimTabs, stimTabs, g) are the mounted charts
ChartsOfSelectedFacet ==
    /\ mounted
    /\ \A g \in Range(GraphIds) :
         charts[g] = build_figure(LoadedCoords[dimTabs][stimTabs][GroupOf(g)],
                                  dimTabs, stimTabs)

\* C1: once the callbacks have returned after a click, every player shown
\* plays a file of the list of the point clicked last, and the not-found
\* message is shown only if no file of that list was in ./assets.
C1_AudioOfLastClickedPoint ==
    (Settled /\ lastEvent.kind = "click") =>
        /\ audio.kind \in {"players", "text"}
        /\ audio.kind = "players" =>
             \A k \in 1..Len(audio.players) :
               \E j \in 1..Len(lastEvent.files) :
                 audio.players[k].src = s_assets \o lastEvent.files[j]
        /\ audio.kind = "text" =>
             /\ audio = NotFound
             /\ \A j \in 1..Len(lastEvent.files) :
                  lastEvent.files[j] \notin fsAtCall

\* the argument of a direct play_audio call is a click on a point whose
\* customdata is None
NoneCustomdataClick(c) ==
    /\ c.kind = "dict"
    /\ Len(c.points) = 1
    /\ c.points[1].customdata = None

\* C2: play_audio called with one click whose point carries customdata=None
\* (the other two arguments None) returns the idle prompt, it neither
\* raises nor returns the not-found message.
C2_NoneCustomdataGivesIdlePrompt ==
    ( /\ call.fn = "play_audio"
      /\ ret # None
      /\ \E p \in {<<call.cd_all, call.cd_can, call.cd_eng>>,
                   <<call.cd_can, call.cd_eng, call.cd_all>>,
                   <<call.cd_eng, call.cd_all, call.cd_can>>} :
           NoneCustomdataClick(p[1]) /\ p[2] = None /\ p[3] = None )
    => ret = IdlePrompt

\* C3: once play_audio has returned after a click carrying the list L, the
\* audio region holds exactly one player per file of L present in ./assets
\* when the handler ran, in the order of L, and the not-found message iff
\* none of them was present.
C3_PlayersOfClickedList ==
    (Settled /\ lastEvent.kind = "click") =>
        audio = Rendering(lastEvent.files, fsAtCall)

\* the handler read its list from the click just made: no chart earlier in
\* (g-all, g-can, g-eng) holds click data
ClickIsFirst ==
    \A k \in 1..Len(GraphIds) :
        Truthy(clickData[GraphIds[k]]) =>
            IndexIn(lastEvent.chart, GraphIds) <= k

\* C3 as far as the code supports it: the same, for a click on the first
\* chart of (g-all, g-can, g-eng) that holds click data.
C3_PlayersOfFirstClickedList ==
    (Settled /\ lastEvent.kind = "click" /\ ClickIsFirst) =>
        audio = Rendering(lastEvent.files, fsAtCall)

\* C4: once the callbacks have returned after a change of the stimulus-type
\* tab, the charts are those of the new stimulus type, no chart holds a
\* click and the audio region shows the idle prompt; and as long as no click
\* is made on the mounted charts the audio region shows the idle prompt.
C4_StimChangeResetsToIdle ==
    Settled =>
        /\ (\A g \in Range(GraphIds) : ~Truthy(clickData[g]))
              => audio = IdlePrompt
        /\ lastEvent.kind = "stim" =>
              /\ ChartsOfSelectedFacet
              /\ clickData = NoClicks
              /\ audio = IdlePrompt

C4_Witness ==
    /\ Settled
    /\ lastEvent.kind = "stim"
    /\ lastEvent.stim = "can"
    /\ lastEvent.shown = "players"
    /\ stimTabs = "mixed"
    /\ audio = IdlePrompt

\* C5 as stated: once the callbacks have returned after a tab change or a
\* click, exactly one callback has run since that event.
C5_ExactlyOneInvocationPerEvent ==
    (Settled /\ lastEvent.kind \in {"dim", "stim", "click"}) => Len(log) = 1

\* the number of runs of callback cb in the log
Runs(cb) == Cardinality({k \in 1..Len(log) : log[k] = cb})

\* C5 as amended: a click runs play_audio once and nothing else; a change
\* of stim-tabs runs make_listener_tabs and then play_audio; a change of
\* dim-tabs runs make_stim_tabs once and make_listener_tabs and play_audio
\* at least once each, the last two runs being make_listener_tabs and then
\* play_audio.
C5_InvocationsPerEvent ==
    Settled =>
        /\ lastEvent.kind = "click" => log = <<"play_audio">>
        /\ lastEvent.kind = "stim" => log = <<"make_listener_tabs", "play_audio">>
        /\ lastEvent.kind = "dim" =>
              /\ Len(log) >= 3
              /\ Runs("make_stim_tabs") = 1
              /\ SubSeq(log, Len(log) - 1, Len(log))
                   = <<"make_listener_tabs", "play_audio">>

C5_Witness ==
    /\ Settled
    /\ lastEvent.kind = "dim"
    /\ Len(log) = 5

\* every row of a drawn table has a language of the facet's partition
PartitionMatches(df, stim) ==
    \/ stim = "mixed"
    \/ \A i \in 1..Len(df) : StrLower(df[i].language) \in {s_can, s_eng}

\* the points (trace, index) of a figure that show row i of the drawn table
PointsOfRow(traces, i) ==
    { p \in (1..Len(traces)) \X (1..(2 * MaxSpeakers + 2)) :
        /\ p[2] <= Len(traces[p[1]].x)
        /\ traces[p[1]].x[p[2]] = i }

RECURSIVE PointCount(_)
PointCount(traces) ==
    IF traces = <<>> THEN 0
    ELSE Len(Head(traces).x) + PointCount(Tail(traces))

\* C6: for a table whose rows all match the partition, every row is a point
\* of exactly one trace, the traces' point counts sum to the row count, and
\* no trace is empty.
C6_TracesPartitionRows ==
    ( /\ call.fn = "build_figure"
      /\ ret.kind = "figure"
      /\ PartitionMatches(call.df, call.stim) )
    => /\ \A i \in 1..Len(call.df) :
            Cardinality(PointsOfRow(ret.traces, i)) = 1
       /\ PointCount(ret.traces) = Len(call.df)
       /\ \A t \in 1..Len(ret.traces) : Len(ret.traces[t].x) > 0
       /\ Len(ret.traces) <= Len(Langs(call.stim))

C6_Witness ==
    /\ call.fn = "build_figure"
    /\ ret.kind = "figure"
    /\ call.stim = "can"
    /\ PartitionMatches(call.df, call.stim)
    /\ \E i \in 1..Len(call.df) : call.df[i].language = s_ENG
    /\ Len(ret.traces) = 2
    /\ Len(call.df) >= 6

\* C7: audio_for returns for a non-mixed stimulus type the two names
\* {speaker}_{language}_utt1.wav and _utt2.wav, and for mixed the four names
\* {speaker}_Can_utt1/2.wav, {speaker}_Eng_utt1/2.wav whatever the language.
C7_AudioForFilenames ==
    (call.fn = "audio_for" /\ ret.kind = "list") =>
        LET spk == call.row.speaker
            lng == call.row.language
            wav(n) == <<"_", "u", "t", "t", n, ".", "w", "a", "v">>
        IN /\ call.stim # "mixed" =>
                ret.items = << spk \o <<"_">> \o lng \o wav("1"),
                               spk \o <<"_">> \o lng \o wav("2") >>
           /\ call.stim = "mixed" =>
                ret.items = << spk \o <<"_", "C", "a", "n">> \o wav("1"),
                               spk \o <<"_", "C", "a", "n">> \o wav("2"),
                               spk \o <<"_", "E", "n", "g">> \o wav("1"),
                               spk \o <<"_", "E", "n", "g">> \o wav("2") >>
           /\ (call.stim # "mixed" /\ spk = <<"S", "1">> /\ lng = <<"c", "a", "n">>) =>
                ret.items =
                  << <<"S", "1", "_", "c", "a", "n", "_", "u", "t", "t", "1",
                       ".", "w", "a", "v">>,
                     <<"S", "1", "_", "c", "a", "n", "_", "u", "t", "t", "2",
                       ".", "w", "a", "v">> >>

C7_Witness ==
    /\ call.fn = "audio_for"
    /\ ret.kind = "list"
    /\ call.stim = "can"
    /\ call.row.speaker = <<"S", "1">>
    /\ call.row.language = <<"c", "a", "n">>
    /\ Len(ret.items) = 2

\* the number of distinct speakers of df that sort before spk
RankOf(spk, df) ==
    Cardinality({ s \in {df[i].speaker : i \in 1..Len(df)} : StrLess(s, spk) })

\* the points (trace, index) of a figure
PointsOf(traces) ==
    { p \in (1..Len(traces)) \X (1..(2 * MaxSpeakers + 2)) :
        p[2] <= Len(traces[p[1]].x) }

\* C8: the color of every point is palette[r mod 10], r the rank of its
\* speaker among the sorted unique speakers of the table; so points of one
\* speaker share their color, and two points share a color only if their
\* speakers' ranks are congruent modulo 10.
C8_ColorByRank ==
    (call.fn = "build_figure" /\ ret.kind = "figure") =>
        LET ts == ret.traces
            spk(p) == call.df[ts[p[1]].x[p[2]]].speaker
            col(p) == ts[p[1]].marker.color[p[2]]
        IN /\ Len(palette) = 10
           /\ \A p \in PointsOf(ts) :
                col(p) = palette[(RankOf(spk(p), call.df) % 10) + 1]
           /\ \A p, q \in PointsOf(ts) :
                /\ spk(p) = spk(q) => col(p) = col(q)
                /\ col(p) = col(q) =>
                     RankOf(spk(p), call.df) % 10 = RankOf(spk(q), call.df) % 10

C8_Witness ==
    /\ call.fn = "build_figure"
    /\ ret.kind = "figure"
    /\ Len(ret.traces) = 2
    /\ \E p, q \in PointsOf(ret.traces) :
         /\ call.df[ret.traces[p[1]].x[p[2]]].speaker = <<"S", "1">>
         /\ call.df[ret.traces[q[1]].x[q[2]]].speaker = <<"S", "9">>
         /\ ret.traces[p[1]].marker.color[p[2]]
              = ret.traces[q[1]].marker.color[q[2]]
    /\ call.df[1].speaker = <<"S", "1", "1">>

\* C9: the tables of coords are as loaded, whatever callbacks have run.
C9_CoordsAsLoaded == coords = LoadedCoords

C9_Witness ==
    /\ Settled
    /\ lastEvent.kind = "click"
    /\ dimTabs = "3d"
    /\ stimTabs = "mixed"
    /\ Len(charts["g-eng"]) = 1

\* C10: once the callbacks have returned, the mounted charts are the
\* figures of coords[dim][stim] for the selected dim-tabs and stim-tabs
\* values, and after a change of dim-tabs the stim-tabs value is "all".
C10_ChartsOfSelectedTabs ==
    Settled =>
        /\ ChartsOfSelectedFacet
        /\ lastEvent.kind = "dim" => stimTabs = "all"

C10_Witness ==
    /\ Settled
    /\ lastEvent.kind = "dim"
    /\ lastEvent.stim = "can"
    /\ dimTabs = "3d"
    /\ stimTabs = "all"
    /\ ChartsOfSelectedFacet

=============================================================================
